---- MODULE Spec2Model ----
(***************************************************************************)
(* Model of process/translations/build-translations.py: one run of the     *)
(* script over the single configured term file.  The run first exports the *)
(* source table to terms.en.csv (the file sent for translation), then      *)
(* reads terms.<lang>.csv for every configured language, terms.en.csv      *)
(* among them, and writes terms-translations.csv.                          *)
(*                                                                         *)
(* A text is a sequence of one-character strings.  Files hold texts, so    *)
(* the csv writer, the csv reader and the hand-written quoting of the      *)
(* merged file are modelled by what they do to the characters.  The data   *)
(* alphabets hold no line break, and every input csv file is rectangular   *)
(* (each row has as many cells as the header).                             *)
(***************************************************************************)
EXTENDS Integers, Sequences, FiniteSets, TLC

VARIABLES
    originalTerms,         \* the source table as csv.DictReader yields it
    fs,                    \* terms.<lang>.csv for each language: exists, data
    translationsFile,      \* the text of terms-translations.csv
    combinedTranslations,  \* the OrderedDict: order of keys, and map
    oneLanguageTerms,      \* the rows of the language file being read
    pc,                    \* position of the script
    error,                 \* the uncaught exception that halted the run
    i,                     \* index of the next source row
    lang,                  \* index of the next language
    j,                     \* index of the next row of the language file
    k                      \* index of the next term to write

vars == <<originalTerms, fs, translationsFile, combinedTranslations,
          oneLanguageTerms, pc, error, i, lang, j, k>>

----------------------------------------------------------------------------
(* Configuration tables *)

Chars(name) ==
  CASE name = "term_localName" -> <<"t", "e", "r", "m", "_", "l", "o", "c", "a", "l", "N", "a", "m", "e">>
    [] name = "label" -> <<"l", "a", "b", "e", "l">>
    [] name = "term_deprecated" -> <<"t", "e", "r", "m", "_", "d", "e", "p", "r", "e", "c", "a", "t", "e", "d">>
    [] name = "rdfs_comment" -> <<"r", "d", "f", "s", "_", "c", "o", "m", "m", "e", "n", "t">>
    [] name = "dcterms_description" -> <<"d", "c", "t", "e", "r", "m", "s", "_", "d", "e", "s", "c", "r", "i", "p", "t", "i", "o", "n">>
    [] name = "examples" -> <<"e", "x", "a", "m", "p", "l", "e", "s">>
    [] name = "definition" -> <<"d", "e", "f", "i", "n", "i", "t", "i", "o", "n">>
    [] name = "notes" -> <<"n", "o", "t", "e", "s">>
    [] name = "identifier" -> <<"i", "d", "e", "n", "t", "i", "f", "i", "e", "r">>
    [] name = "context" -> <<"c", "o", "n", "t", "e", "x", "t">>
    [] name = "text" -> <<"t", "e", "x", "t">>
    [] name = "en" -> <<"e", "n">>
    [] name = "de" -> <<"d", "e">>
    [] name = "es" -> <<"e", "s">>
    [] name = "fr" -> <<"f", "r">>
    [] name = "ko" -> <<"k", "o">>
    [] name = "nl" -> <<"n", "l">>
    [] name = "ru" -> <<"r", "u">>
    [] name = "zh-Hans" -> <<"z", "h", "-", "H", "a", "n", "s">>
    [] name = "zh-Hant" -> <<"z", "h", "-", "H", "a", "n", "t">>

\* The keys of translate_these_columns, in the order the dict lists them.
translate_these_columns ==
  <<"label", "rdfs_comment", "dcterms_description", "examples", "definition", "notes">>

\* translate_these_columns[col]
DisplayLabel(col) ==
  CASE col = "label" -> <<"L", "a", "b", "e", "l">>
    [] col = "rdfs_comment" -> <<"C", "o", "m", "m", "e", "n", "t">>
    [] col = "dcterms_description" -> <<"D", "e", "s", "c", "r", "i", "p", "t", "i", "o", "n">>
    [] col = "examples" -> <<"E", "x", "a", "m", "p", "l", "e", "s">>
    [] col = "definition" -> <<"D", "e", "f", "i", "n", "i", "t", "i", "o", "n">>
    [] col = "notes" -> <<"N", "o", "t", "e", "s">>

crowdin_fieldnames == <<Chars("identifier"), Chars("context"), Chars("text")>>

\* The keys of output_translation_columns, in the order the dict lists them.
output_translation_columns == <<"label", "dcterms_description">>

\* output_translation_columns[col]
OutputName(col) ==
  CASE col = "label" -> "label"
    [] col = "dcterms_description" -> "definition"

languages == <<"en", "de", "es", "fr", "ko", "nl", "ru", "zh-Hans", "zh-Hant">>

TermUrl ==
  <<" ", "h", "t", "t", "p", ":", "/", "/", "r", "s", ".", "t", "d", "w", "g", ".", "o", "r", "g", "/", "d", "w", "c", "/", "t", "e", "r", "m", "s", "/">>

----------------------------------------------------------------------------
(* Texts *)

Range(s) == {s[n] : n \in DOMAIN s}

Has(text, c) == \E n \in DOMAIN text : text[n] = c

RECURSIVE Flatten(_)
Flatten(texts) ==
  IF texts = <<>> THEN <<>> ELSE Head(texts) \o Flatten(Tail(texts))

\* sep.join(texts)
RECURSIVE Join(_, _)
Join(texts, sep) ==
  IF texts = <<>> THEN <<>>
  ELSE IF Len(texts) = 1 THEN texts[1]
  ELSE texts[1] \o sep \o Join(Tail(texts), sep)

\* text.replace('"', '""')
RECURSIVE DoubleQuotes(_)
DoubleQuotes(text) ==
  IF text = <<>> THEN <<>>
  ELSE (IF Head(text) = "\"" THEN <<"\"", "\"">> ELSE <<Head(text)>>)
       \o DoubleQuotes(Tail(text))

\* text.split(sep) for a one-character sep: the pieces between the separators
RECURSIVE SplitFrom(_, _, _, _)
SplitFrom(text, sep, n, piece) ==
  IF n > Len(text) THEN <<piece>>
  ELSE IF text[n] = sep THEN <<piece>> \o SplitFrom(text, sep, n + 1, <<>>)
  ELSE SplitFrom(text, sep, n + 1, Append(piece, text[n]))

Split(text, sep) == SplitFrom(text, sep, 1, <<>>)

----------------------------------------------------------------------------
(* The csv module, dialect excel, QUOTE_MINIMAL, lineterminator os.linesep *)

lineterminator == <<"\n">>

\* A field is quoted when it holds the delimiter, the quote character or a
\* character of the line terminator; quotes inside it are doubled.
CsvField(text) ==
  IF \E n \in DOMAIN text : text[n] \in {",", "\"", "\n", "\r"}
  THEN <<"\"">> \o DoubleQuotes(text) \o <<"\"">>
  ELSE text

\* csv.writer.writerow
writerow(fields) ==
  Join([n \in DOMAIN fields |-> CsvField(fields[n])], <<",">>) \o lineterminator

\* csv.reader, not strict, with doubled quotes.  The reader is a character
\* state machine; it is modelled a cell at a time: where the cell that starts
\* at a position ends, and what it holds.

\* The first position from p on that holds a character of stops, or the
\* position after the end of data
NextOf(data, p, stops) ==
  LET found == {n \in p..Len(data) : data[n] \in stops} IN
  IF found = {} THEN Len(data) + 1
  ELSE CHOOSE n \in found : \A m \in found : n <= m

\* The quote that closes the quoted cell opened at p - 1, reading from p: a
\* quote followed by a quote stands for one quote of the cell, so the closing
\* quote is the last of the first run of quotes of odd length.  Len(data) + 1
\* when the cell is never closed.
ClosingQuote(data, p) ==
  LET closing == {n \in p..Len(data) :
                    /\ data[n] = "\""
                    /\ (n = Len(data) \/ data[n + 1] # "\"")
                    /\ \E q \in p..n :
                         /\ \A m \in q..n : data[m] = "\""
                         /\ (q = p \/ data[q - 1] # "\"")
                         /\ (n - q) % 2 = 0} IN
  IF closing = {} THEN Len(data) + 1
  ELSE CHOOSE n \in closing : \A m \in closing : n <= m

\* The text of a quoted cell: each doubled quote read as one quote
RECURSIVE Undouble(_)
Undouble(text) ==
  IF Len(text) < 2 THEN text
  ELSE IF text[1] = "\"" /\ text[2] = "\""
  THEN <<"\"">> \o Undouble(SubSeq(text, 3, Len(text)))
  ELSE <<text[1]>> \o Undouble(Tail(text))

\* The cell that starts at p: its text and the position of the delimiter or
\* line break that ends it.  What follows a closing quote up to the delimiter
\* is kept as it is.
CellAt(data, p) ==
  IF p <= Len(data) /\ data[p] = "\""
  THEN LET c == ClosingQuote(data, p + 1)
           e == NextOf(data, c + 1, {",", "\n"})
       IN [text |-> Undouble(SubSeq(data, p + 1, c - 1)) \o SubSeq(data, c + 1, e - 1),
           end |-> e]
  ELSE LET e == NextOf(data, p, {",", "\n"})
       IN [text |-> SubSeq(data, p, e - 1), end |-> e]

\* The records from position p on; row holds the cells already read of the
\* record being read, and atRecordStart tells that none was read yet
RECURSIVE CsvParse(_, _, _, _)
CsvParse(data, p, atRecordStart, row) ==
  IF p > Len(data)
  THEN IF atRecordStart THEN <<>> ELSE <<Append(row, <<>>)>>
  ELSE IF atRecordStart /\ data[p] = "\n"
  THEN <<<<>>>> \o CsvParse(data, p + 1, TRUE, <<>>)
  ELSE LET cell == CellAt(data, p) IN
       IF cell.end > Len(data) THEN <<Append(row, cell.text)>>
       ELSE IF data[cell.end] = ","
       THEN CsvParse(data, cell.end + 1, FALSE, Append(row, cell.text))
       ELSE <<Append(row, cell.text)>> \o CsvParse(data, cell.end + 1, TRUE, <<>>)

CsvReader(data) == CsvParse(data, 1, TRUE, <<>>)

\* csv.DictReader: the first record names the fields, every later record
\* that is not empty becomes a dict from field name to cell.
DictReader(data) ==
  LET records == SelectSeq(CsvReader(data), LAMBDA r : r # <<>>)
      fieldnames == IF records = <<>> THEN <<>> ELSE records[1]
      Cell(r, name) ==
        r[CHOOSE n \in DOMAIN fieldnames :
             /\ fieldnames[n] = name
             /\ \A m \in DOMAIN fieldnames : fieldnames[m] = name => m <= n]
  IN [n \in 1..(Len(records) - 1) |->
        [name \in Range(fieldnames) |-> Cell(records[n + 1], name)]]

----------------------------------------------------------------------------
(* The examples column *)

\* The backtick, which a TLA+ string cannot hold
Backtick == "backtick"

\* The characters of the class [;., \n] of the pattern
PatternPunctuation == {";", ".", ",", " ", "\n"}

\* Where a match of `[^`]+`[;., \n]* that starts at p ends (the position after
\* it), or 0 when none starts at p.
RECURSIVE SkipPunctuation(_, _)
SkipPunctuation(text, p) ==
  IF p <= Len(text) /\ text[p] \in PatternPunctuation
  THEN SkipPunctuation(text, p + 1) ELSE p

MatchEnd(text, p) ==
  IF text[p] # Backtick THEN 0
  ELSE LET closing == {q \in (p + 1)..Len(text) : text[q] = Backtick} IN
       IF closing = {} THEN 0
       ELSE LET q == CHOOSE q \in closing : \A r \in closing : q <= r IN
            IF q = p + 1 THEN 0 ELSE SkipPunctuation(text, q + 1)

\* re.sub(pattern, '', text): the matches are taken leftmost first and do not
\* overlap
RECURSIVE ReSub(_, _)
ReSub(text, p) ==
  IF p > Len(text) THEN <<>>
  ELSE LET e == MatchEnd(text, p) IN
       IF e = 0 THEN <<text[p]>> \o ReSub(text, p + 1) ELSE ReSub(text, e)

examples_without_examples(text) == ReSub(text, 1)

\* As ExamplesOnly, with the bound off by one: only an empty rest is skipped
ExamplesOnlyEmpty(text) == Len(examples_without_examples(text)) < 1

\* len(examples_without_examples) < 2: the field is not exported
ExamplesOnly(text) == Len(examples_without_examples(text)) < 2

----------------------------------------------------------------------------
(* The export pass, lines 52-75 *)

TrueText == <<"t", "r", "u", "e">>

\* As Deprecated, comparing with "True"
DeprecatedCapitalised(originalRow) ==
  originalRow["term_deprecated"] = <<"T", "r", "u", "e">>

\* originalRow['term_deprecated'] != "true" fails
Deprecated(originalRow) == originalRow["term_deprecated"] = TrueText

\* As Eligible, with len(...) > 1: a field of one character is left out
EligibleLongerThanOne(originalRow, col) ==
  /\ col \in DOMAIN originalRow
  /\ Len(originalRow[col]) > 1
  /\ ~(col = "examples" /\ ExamplesOnly(originalRow[col]))

\* translatableCol is present, not empty and, for examples, more than examples
Eligible(originalRow, col) ==
  /\ col \in DOMAIN originalRow
  /\ Len(originalRow[col]) > 0
  /\ ~(col = "examples" /\ ExamplesOnly(originalRow[col]))

\* A column that lines 73-74 read is missing: the read raises KeyError
MissingKey(originalRow) ==
  \/ "term_localName" \notin DOMAIN originalRow
  \/ "label" \notin DOMAIN originalRow

Identifier(localName, col) == localName \o <<":">> \o Chars(col)

\* The line that lines 73-75 write for one column of one row
ExportLine(originalRow, col) ==
  writerow(<<Identifier(originalRow["term_localName"], col),
             DisplayLabel(col) \o <<" ", "f", "o", "r", " ">> \o originalRow["label"]
               \o TermUrl \o originalRow["term_localName"],
             originalRow[col]>>)

\* The loop of line 64 from the n-th column on: the text written, and the
\* exception that ended it, if any
RECURSIVE ExportColumns(_, _, _)
ExportColumns(originalRow, n, out) ==
  IF n > Len(translate_these_columns) THEN [out |-> out, err |-> "none"]
  ELSE LET col == translate_these_columns[n] IN
       IF ~Eligible(originalRow, col) THEN ExportColumns(originalRow, n + 1, out)
       ELSE IF MissingKey(originalRow) THEN [out |-> out, err |-> "KeyError"]
       ELSE ExportColumns(originalRow, n + 1, out \o ExportLine(originalRow, col))

\* As ExportOne, reading term_deprecated with a default: a row without the
\* column is taken as not to be exported
ExportOneLenient(originalRow) ==
  IF "term_deprecated" \notin DOMAIN originalRow THEN [out |-> <<>>, err |-> "none"]
  ELSE IF Deprecated(originalRow) THEN [out |-> <<>>, err |-> "none"]
  ELSE ExportColumns(originalRow, 1, <<>>)

\* The body of the loop of line 60 for one row
ExportOne(originalRow) ==
  IF "term_deprecated" \notin DOMAIN originalRow THEN [out |-> <<>>, err |-> "KeyError"]
  ELSE IF Deprecated(originalRow) THEN [out |-> <<>>, err |-> "none"]
  ELSE ExportColumns(originalRow, 1, <<>>)

\* Lines 52-54: terms.en.csv is created, or truncated, and gets its header
OpenEnglishFile ==
  /\ pc = "start"
  /\ fs' = [fs EXCEPT !["en"] = [exists |-> TRUE, data |-> writerow(crowdin_fieldnames)]]
  /\ pc' = "export"
  /\ UNCHANGED <<originalTerms, translationsFile, combinedTranslations,
                 oneLanguageTerms, error, i, lang, j, k>>

\* Lines 60-75: one source row
ExportRow ==
  /\ pc = "export"
  /\ i <= Len(originalTerms)
  /\ LET res == ExportOne(originalTerms[i]) IN
       /\ fs' = [fs EXCEPT !["en"].data = @ \o res.out]
       /\ IF res.err = "none"
          THEN /\ i' = i + 1
               /\ UNCHANGED <<pc, error>>
          ELSE /\ pc' = "error"
               /\ error' = res.err
               /\ UNCHANGED i
  /\ UNCHANGED <<originalTerms, translationsFile, combinedTranslations,
                 oneLanguageTerms, lang, j, k>>

----------------------------------------------------------------------------
(* The merge pass, lines 80-127 *)

EmptyDict == [x \in {} |-> <<>>]

\* d[key] = value
Put(d, key, value) ==
  [x \in DOMAIN d \cup {key} |-> IF x = key THEN value ELSE d[x]]

\* The (column, language) pairs in the order of the loops of lines 89-90 and
\* 118-119
OutputCells ==
  [n \in 1..(Len(output_translation_columns) * Len(languages)) |->
     [col |-> output_translation_columns[((n - 1) \div Len(languages)) + 1],
      lang |-> languages[((n - 1) % Len(languages)) + 1]]]

\* Lines 88-93
HeaderLine ==
  Chars("term_localName")
  \o Flatten([n \in DOMAIN OutputCells |->
               <<",">> \o Chars(OutputName(OutputCells[n].col)) \o <<"_">>
                 \o Chars(OutputCells[n].lang)])
  \o <<"\n">>

\* col+'_'+lang
Key(column, language) == column \o <<"_">> \o Chars(language)

\* As PathExists, without the check: every language file is opened
PathAlwaysExists(language) == TRUE

\* os.path.exists(termfile+'.'+lang+'.csv')
PathExists(language) == fs[language].exists

\* As QuotedCell, testing for the comma only
QuotedCellCommaOnly(value) ==
  LET text == DoubleQuotes(value) IN
  IF Has(text, ",")
  THEN <<",", "\"">> \o text \o <<"\"">>
  ELSE <<",">> \o text

\* Lines 121-126: what is written for a value that is present
QuotedCell(value) ==
  LET text == DoubleQuotes(value) IN
  IF Has(text, ",") \/ Has(text, "\"")
  THEN <<",", "\"">> \o text \o <<"\"">>
  ELSE <<",">> \o text

\* Lines 120-126: what is written for one (column, language) pair
WrittenCell(translations, col, language) ==
  IF Key(Chars(col), language) \in DOMAIN translations
  THEN QuotedCell(translations[Key(Chars(col), language)])
  ELSE <<>>

\* Lines 117-127
RowLine(localName, translations) ==
  localName
  \o Flatten([n \in DOMAIN OutputCells |->
               WrittenCell(translations, OutputCells[n].col, OutputCells[n].lang)])
  \o <<"\n">>

\* As Accumulate, over a dict that lists a term where it was last seen
AccumulateLastSeen(combined, localName, key, text) ==
  IF localName \in DOMAIN combined.map
  THEN [order |-> Append(SelectSeq(combined.order, LAMBDA x : x # localName), localName),
        map |-> [combined.map EXCEPT ![localName] = Put(@, key, text)]]
  ELSE [order |-> Append(combined.order, localName),
        map |-> Put(combined.map, localName, Put(EmptyDict, key, text))]

\* Lines 111-113
Accumulate(combined, localName, key, text) ==
  IF localName \in DOMAIN combined.map
  THEN [combined EXCEPT !.map[localName] = Put(@, key, text)]
  ELSE [order |-> Append(combined.order, localName),
        map |-> Put(combined.map, localName, Put(EmptyDict, key, text))]

\* Lines 77-98: terms-translations.csv is created, or truncated, and gets its
\* header.  The lists fieldnames and xfieldnames built there are never
\* read.
BeginMerge ==
  /\ pc = "export"
  /\ i > Len(originalTerms)
  /\ translationsFile' = HeaderLine
  /\ combinedTranslations' = [order |-> <<>>, map |-> EmptyDict]
  /\ lang' = 1
  /\ pc' = "languages"
  /\ UNCHANGED <<originalTerms, fs, oneLanguageTerms, error, i, j, k>>

\* Lines 100-104: the next language; its file is opened when it exists, and
\* open() of a file that does not exist raises FileNotFoundError
NextLanguage ==
  /\ pc = "languages"
  /\ lang <= Len(languages)
  /\ IF PathExists(languages[lang])
     THEN IF fs[languages[lang]].exists
          THEN /\ oneLanguageTerms' = DictReader(fs[languages[lang]].data)
               /\ j' = 1
               /\ pc' = "rows"
               /\ UNCHANGED <<lang, error>>
          ELSE /\ pc' = "error"
               /\ error' = "FileNotFoundError"
               /\ UNCHANGED <<oneLanguageTerms, j, lang>>
     ELSE /\ lang' = lang + 1
          /\ UNCHANGED <<oneLanguageTerms, j, pc, error>>
  /\ UNCHANGED <<originalTerms, fs, translationsFile, combinedTranslations, i, k>>

\* Lines 106-113: one row of the language file
MergeRow ==
  /\ pc = "rows"
  /\ j <= Len(oneLanguageTerms)
  /\ LET row == oneLanguageTerms[j] IN
       IF Chars("identifier") \notin DOMAIN row \/ Chars("text") \notin DOMAIN row
       THEN /\ pc' = "error"
            /\ error' = "KeyError"
            /\ UNCHANGED <<combinedTranslations, j>>
       ELSE LET parts == Split(row[Chars("identifier")], ":") IN
            IF Len(parts) # 2
            THEN /\ pc' = "error"
                 /\ error' = "ValueError"
                 /\ UNCHANGED <<combinedTranslations, j>>
            ELSE /\ combinedTranslations' =
                      Accumulate(combinedTranslations, parts[1],
                                 Key(parts[2], languages[lang]), row[Chars("text")])
                 /\ j' = j + 1
                 /\ UNCHANGED <<pc, error>>
  /\ UNCHANGED <<originalTerms, fs, translationsFile, oneLanguageTerms, i, lang, k>>

\* The language file is exhausted
EndLanguage ==
  /\ pc = "rows"
  /\ j > Len(oneLanguageTerms)
  /\ lang' = lang + 1
  /\ pc' = "languages"
  /\ UNCHANGED <<originalTerms, fs, translationsFile, combinedTranslations,
                 oneLanguageTerms, error, i, j, k>>

\* Lines 116-127: one term
WriteRow ==
  /\ pc = "languages"
  /\ lang > Len(languages)
  /\ k <= Len(combinedTranslations.order)
  /\ LET localName == combinedTranslations.order[k] IN
       translationsFile' =
         translationsFile \o RowLine(localName, combinedTranslations.map[localName])
  /\ k' = k + 1
  /\ UNCHANGED <<originalTerms, fs, combinedTranslations, oneLanguageTerms,
                 pc, error, i, lang, j>>

\* Line 129
Finish ==
  /\ pc = "languages"
  /\ lang > Len(languages)
  /\ k > Len(combinedTranslations.order)
  /\ pc' = "done"
  /\ UNCHANGED <<originalTerms, fs, translationsFile, combinedTranslations,
                 oneLanguageTerms, error, i, lang, j, k>>

Next ==
  \/ OpenEnglishFile
  \/ ExportRow
  \/ BeginMerge
  \/ NextLanguage
  \/ MergeRow
  \/ EndLanguage
  \/ WriteRow
  \/ Finish

----------------------------------------------------------------------------
(* Inputs: the source table and the language files found when the run starts *)

MaxRows == 2
MaxLen == 5
MaxTextLen == 3
MaxFileRows == 2
MaxColumnRows == 1

Texts(alphabet, maxLen) == UNION {[1..n -> alphabet] : n \in 0..maxLen}

Tables(rows, maxRows) == UNION {[1..n -> rows] : n \in 0..maxRows}

Absent == [exists |-> FALSE, data |-> <<>>]

\* A csv file with the given header and rows
CsvFile(header, rows) ==
  [exists |-> TRUE,
   data |-> writerow(header) \o Flatten([n \in DOMAIN rows |-> writerow(rows[n])])]

\* The file systems that hold a file of contents for some of inputLanguages
FileSystems(inputLanguages, contents) ==
  {[l \in Range(languages) |-> IF l \in inputLanguages THEN f[l] ELSE Absent] :
     f \in [inputLanguages -> contents \cup {Absent}]}

InitWith(tables, fileSystems) ==
  /\ originalTerms \in tables
  /\ fs \in fileSystems
  /\ translationsFile = <<>>
  /\ combinedTranslations = [order |-> <<>>, map |-> EmptyDict]
  /\ oneLanguageTerms = <<>>
  /\ pc = "start"
  /\ error = "none"
  /\ i = 1
  /\ lang = 1
  /\ j = 1
  /\ k = 1

FalseText == <<"f", "a", "l", "s", "e">>

\* Source tables with every column the export reads; no translated file yet
ExportRows ==
  [term_localName : {<<"t">>, <<"u">>},
   label : {<<>>, <<"L">>},
   term_deprecated : {TrueText, FalseText},
   examples : {<<Backtick, "a", Backtick>>, <<"a", "b", Backtick, "c", Backtick>>},
   notes : {<<",">>}]

Init == InitWith(Tables(ExportRows, MaxRows), FileSystems({}, {}))

Spec == Init /\ [][Next]_vars

\* One term whose examples column ranges over the texts of backticks, letters
\* and punctuation
ExampleChars == {Backtick, "a", ";"}

ExamplesRows ==
  [term_localName : {<<"t">>},
   label : {<<"L">>},
   term_deprecated : {FalseText},
   examples : Texts(ExampleChars, MaxLen)]

InitExamples == InitWith([1..1 -> ExamplesRows], FileSystems({}, {}))

SpecExamples == InitExamples /\ [][Next]_vars

\* One term whose label ranges over the texts of letters, commas and quotes,
\* and a German file that may translate the label
QuotingChars == {"a", ",", "\""}

QuotingRows ==
  [term_localName : {<<"t">>},
   label : Texts(QuotingChars, MaxTextLen),
   term_deprecated : {FalseText}]

QuotingFiles ==
  {CsvFile(crowdin_fieldnames, <<<<Identifier(<<"t">>, "label"), <<>>, text>>>>) :
     text \in {<<"\"">>, <<",", "a">>}}

InitQuoting == InitWith([1..1 -> QuotingRows], FileSystems({"de"}, QuotingFiles))

SpecQuoting == InitQuoting /\ [][Next]_vars

\* At most one term in the source table, and German and French files whose
\* rows name terms in any order
MergeRows ==
  [term_localName : {<<"t">>, <<"u">>},
   label : {<<"L">>},
   term_deprecated : {FalseText},
   dcterms_description : {<<"D">>}]

MergeIdentifiers ==
  {Identifier(<<"t">>, "label"), Identifier(<<"u">>, "label"),
   Identifier(<<"u">>, "dcterms_description")}

MergeFiles ==
  {CsvFile(crowdin_fieldnames, rows) :
     rows \in Tables({<<id, <<>>, <<"x">>>> : id \in MergeIdentifiers}, MaxFileRows)}

InitMerge == InitWith(Tables(MergeRows, 1), FileSystems({"de", "fr"}, MergeFiles))

SpecMerge == InitMerge /\ [][Next]_vars

\* Source tables and German files that may lack a column the script reads,
\* and identifiers with more than one colon
ColumnRows ==
  [term_localName : {<<"t">>}, label : {<<"L">>},
   term_deprecated : {TrueText, FalseText}, notes : {<<>>, <<"n">>}]
  \cup [label : {<<"L">>}, term_deprecated : {TrueText, FalseText}, notes : {<<>>, <<"n">>}]
  \cup [term_localName : {<<"t">>},
        term_deprecated : {TrueText, FalseText}, notes : {<<>>, <<"n">>}]
  \cup [term_localName : {<<"t">>}, label : {<<"L">>}, notes : {<<>>, <<"n">>}]

\* The rows of one table have the columns of its header
ColumnTables ==
  {t \in Tables(ColumnRows, MaxColumnRows) :
     \A m, n \in DOMAIN t : DOMAIN t[m] = DOMAIN t[n]}

ColumnIdentifiers ==
  {Identifier(<<"t">>, "label"), <<"t", ":", "a", ":", "b">>}

ColumnFiles ==
  {CsvFile(crowdin_fieldnames, rows) :
     rows \in Tables({<<id, <<>>, <<"x">>>> : id \in ColumnIdentifiers}, MaxFileRows)}
  \cup {CsvFile(<<Chars("context"), Chars("text")>>, rows) :
          rows \in Tables({<<<<>>, <<"x">>>>}, MaxFileRows)}
  \cup {CsvFile(<<Chars("identifier"), Chars("context")>>, rows) :
          rows \in Tables({<<id, <<>>>> : id \in ColumnIdentifiers}, MaxFileRows)}

InitColumns == InitWith(ColumnTables, FileSystems({"de"}, ColumnFiles))

SpecColumns == InitColumns /\ [][Next]_vars

----------------------------------------------------------------------------
(* What a reader of the written files sees *)

\* The rows of terms.en.csv
ExportedRows == IF fs["en"].exists THEN DictReader(fs["en"].data) ELSE <<>>

\* The source rows the export loop has dealt with
Processed == 1..(i - 1)

HasExportRow(exported, localName, col, text) ==
  \E n \in DOMAIN exported :
    /\ exported[n][Chars("identifier")] = Identifier(localName, col)
    /\ exported[n][Chars("text")] = text

NonEmptyField(originalRow, col) ==
  col \in DOMAIN originalRow /\ originalRow[col] # <<>>

\* The identifier up to its first colon, and after it
BeforeColon(identifier) == SubSeq(identifier, 1, NextOf(identifier, 1, {":"}) - 1)

AfterColon(identifier) ==
  SubSeq(identifier, NextOf(identifier, 1, {":"}) + 1, Len(identifier))

\* The rows of the file of a language
FileRows(language) == DictReader(fs[language].data)

ExistingLanguages == SelectSeq(languages, LAMBDA l : fs[l].exists)

\* The term_localName of every row of every existing language file, in the
\* order of the languages and of the rows
AllNames ==
  Flatten([n \in DOMAIN ExistingLanguages |->
            [m \in DOMAIN FileRows(ExistingLanguages[n]) |->
               BeforeColon(FileRows(ExistingLanguages[n])[m][Chars("identifier")])]])

\* The distinct elements of s in the order of their first occurrence
FirstSeen(s) ==
  LET keep == {n \in DOMAIN s : \A m \in 1..(n - 1) : s[m] # s[n]} IN
  [r \in 1..Cardinality(keep) |->
     s[CHOOSE n \in keep : Cardinality({m \in keep : m <= n}) = r]]

\* The records of terms-translations.csv after its header, and the cells of
\* the header
DataText == SubSeq(translationsFile, Len(HeaderLine) + 1, Len(translationsFile))

DataRows == CsvReader(DataText)

HeaderCells == CsvReader(HeaderLine)[1]

\* The lines of terms-translations.csv after its header
DataLines ==
  LET pieces == Split(DataText, "\n") IN SubSeq(pieces, 1, Len(pieces) - 1)

----------------------------------------------------------------------------
(* C1 *)

\* C1 as stated: for every processed source row that is not deprecated and
\* every translatable column that is present and not empty on it, the export
\* file holds a row with identifier term_localName:column and the unchanged
\* text.
C1_EveryNonEmptyFieldExported ==
  LET exported == ExportedRows IN
  \A r \in Processed :
    LET row == originalTerms[r] IN
    row["term_deprecated"] # TrueText =>
      \A n \in DOMAIN translate_these_columns :
        LET col == translate_these_columns[n] IN
        NonEmptyField(row, col) =>
          HasExportRow(exported, row["term_localName"], col, row[col])

\* C1 as amended: the same, except for an examples column of which fewer than
\* two characters are left once the backtick spans and the punctuation after
\* them are removed.
C1_EveryEligibleFieldExported ==
  LET exported == ExportedRows IN
  \A r \in Processed :
    LET row == originalTerms[r] IN
    row["term_deprecated"] # TrueText =>
      \A n \in DOMAIN translate_these_columns :
        LET col == translate_these_columns[n] IN
        (/\ NonEmptyField(row, col)
         /\ (col = "examples" => Len(examples_without_examples(row[col])) >= 2)) =>
          HasExportRow(exported, row["term_localName"], col, row[col])

\* A processed live row whose label, examples and notes were all exported
C1_Witness ==
  LET exported == ExportedRows IN
  \E r \in Processed :
    LET row == originalTerms[r] IN
    /\ row["term_deprecated"] # TrueText
    /\ row["label"] # <<>>
    /\ Len(examples_without_examples(row["examples"])) >= 2
    /\ \A col \in {"label", "examples", "notes"} :
         HasExportRow(exported, row["term_localName"], col, row[col])

----------------------------------------------------------------------------
(* C2 *)

\* C2: for every processed source row with term_deprecated "true", the export
\* file holds no row with that row's term_localName, whatever its fields
\* hold; where two rows share a term_localName, the rows found are those of a
\* live row of that name.
C2_NoRowForDeprecated ==
  LET exported == ExportedRows IN
  \A r \in Processed :
    LET row == originalTerms[r] IN
    row["term_deprecated"] = TrueText =>
      \A n \in DOMAIN exported :
        (\E m \in DOMAIN translate_these_columns :
           exported[n][Chars("identifier")]
             = Identifier(row["term_localName"], translate_these_columns[m])) =>
          \E q \in Processed :
            /\ originalTerms[q]["term_localName"] = row["term_localName"]
            /\ originalTerms[q]["term_deprecated"] # TrueText

\* A finished run where a deprecated row with a label and notes left nothing
\* in an export file that holds the rows of another term
C2_Witness ==
  LET exported == ExportedRows IN
  /\ pc = "done"
  /\ exported # <<>>
  /\ \E r \in DOMAIN originalTerms :
       LET row == originalTerms[r] IN
       /\ row["term_deprecated"] = TrueText
       /\ row["label"] # <<>>
       /\ row["notes"] # <<>>
       /\ \A n \in DOMAIN exported :
            BeforeColon(exported[n][Chars("identifier")]) # row["term_localName"]

----------------------------------------------------------------------------
(* C3 *)

\* The text is made of backtick-quoted spans and punctuation only: its
\* backticks pair up, every pair encloses something, and outside the pairs
\* there is nothing but punctuation.
SolelySpans(text) ==
  LET ticksBefore(n) == Cardinality({m \in 1..(n - 1) : text[m] = Backtick}) IN
  /\ Has(text, Backtick)
  /\ Cardinality({m \in DOMAIN text : text[m] = Backtick}) % 2 = 0
  /\ \A n \in DOMAIN text :
       /\ (text[n] = Backtick /\ ticksBefore(n) % 2 = 0) => text[n + 1] # Backtick
       /\ (text[n] # Backtick /\ ticksBefore(n) % 2 = 0) => text[n] \in PatternPunctuation

\* C3 as stated: a non-empty examples column of a live row gets no export row
\* when it holds backtick spans and punctuation only, and gets one when it
\* holds anything else.
C3_ExamplesRowIffProse ==
  LET exported == ExportedRows IN
  \A r \in Processed :
    LET row == originalTerms[r] IN
    (row["term_deprecated"] # TrueText /\ NonEmptyField(row, "examples")) =>
      (HasExportRow(exported, row["term_localName"], "examples", row["examples"])
         <=> ~SolelySpans(row["examples"]))

\* C3 as amended: a non-empty examples column of a live row gets an export
\* row exactly when at least two characters are left of it once every
\* backtick span and the punctuation after it are removed.
C3_ExamplesRowIffTwoLeft ==
  LET exported == ExportedRows IN
  \A r \in Processed :
    LET row == originalTerms[r] IN
    (row["term_deprecated"] # TrueText /\ NonEmptyField(row, "examples")) =>
      (HasExportRow(exported, row["term_localName"], "examples", row["examples"])
         <=> Len(examples_without_examples(row["examples"])) >= 2)

\* An examples column with a span and prose around it that was exported
C3_Witness ==
  LET exported == ExportedRows IN
  \E r \in Processed :
    LET row == originalTerms[r] IN
    /\ Has(row["examples"], Backtick)
    /\ Len(examples_without_examples(row["examples"])) < Len(row["examples"])
    /\ Len(examples_without_examples(row["examples"])) >= 2
    /\ HasExportRow(exported, row["term_localName"], "examples", row["examples"])

----------------------------------------------------------------------------
(* C4 *)

\* The column of terms-translations.csv with the given header, 0 when none
ColumnOf(header) ==
  IF \E c \in DOMAIN HeaderCells : HeaderCells[c] = header
  THEN CHOOSE c \in DOMAIN HeaderCells : HeaderCells[c] = header
  ELSE 0

\* C4: round trip.  terms.en.csv, as the export wrote it, is the file the
\* merge reads for language en; for every row of it whose column is one of
\* the merged columns, the merged file has a row for the term whose cell
\* under the header <merged column>_en is the exported text.
C4_RoundTrip ==
  pc = "done" =>
    LET exported == ExportedRows
        merged == DataRows
    IN \A n \in DOMAIN exported :
         \A m \in DOMAIN output_translation_columns :
           LET col == output_translation_columns[m]
               c == ColumnOf(Chars(OutputName(col)) \o <<"_">> \o Chars("en"))
           IN AfterColon(exported[n][Chars("identifier")]) = Chars(col) =>
                \E r \in DOMAIN merged :
                  /\ merged[r][1] = BeforeColon(exported[n][Chars("identifier")])
                  /\ c \in DOMAIN merged[r]
                  /\ merged[r][c] = exported[n][Chars("text")]

----------------------------------------------------------------------------
(* C5 *)

\* C5: every row of the merged file has, after term_localName, one cell for
\* each (merged column, language) pair in the order of the header; the cell
\* holds the accumulated value, or is empty when there is none.
C5_OneCellPerHeaderColumn ==
  pc = "done" =>
    LET merged == DataRows IN
    /\ Len(merged) = Len(combinedTranslations.order)
    /\ \A r \in DOMAIN merged :
         LET translations == combinedTranslations.map[combinedTranslations.order[r]] IN
         /\ Len(merged[r]) = 1 + Len(OutputCells)
         /\ Len(merged[r]) = Len(HeaderCells)
         /\ \A n \in DOMAIN OutputCells :
              LET key == Key(Chars(OutputCells[n].col), OutputCells[n].lang) IN
              /\ HeaderCells[n + 1]
                   = Chars(OutputName(OutputCells[n].col)) \o <<"_">>
                       \o Chars(OutputCells[n].lang)
              /\ merged[r][n + 1]
                   = IF key \in DOMAIN translations THEN translations[key] ELSE <<>>

----------------------------------------------------------------------------
(* C6 *)

\* text begins with prefix, and a comma or nothing follows
StartsWithCell(text, prefix) ==
  /\ Len(text) >= Len(prefix)
  /\ SubSeq(text, 1, Len(prefix)) = prefix
  /\ (Len(text) = Len(prefix) \/ text[Len(prefix) + 1] = ",")

\* C6: the merged file has one row for each distinct term_localName of the
\* existing language files, in the order in which the names are first met
\* when the files are read in the order of the languages, each in the order
\* of its rows.
C6_OneRowPerTermInFirstSeenOrder ==
  pc = "done" =>
    LET names == FirstSeen(AllNames)
        lines == DataLines
    IN /\ Len(lines) = Len(names)
       /\ \A r \in DOMAIN lines : StartsWithCell(lines[r], names[r])

\* A finished run that met a name again after it had met another one
C6_Witness ==
  /\ pc = "done"
  /\ Len(FirstSeen(AllNames)) >= 2
  /\ \E m, n \in DOMAIN AllNames :
       /\ m + 1 < n
       /\ AllNames[m] = AllNames[n]
       /\ AllNames[m + 1] # AllNames[m]

----------------------------------------------------------------------------
(* C7 *)

\* C7: every row of a language file that has an identifier with a colon is
\* recorded: the identifier is cut at its first colon into term_localName and
\* field name, and the text is stored for the term under field name_language.
C7_SplitOnFirstColon ==
  [][(/\ pc = "rows"
      /\ j <= Len(oneLanguageTerms)
      /\ Chars("identifier") \in DOMAIN oneLanguageTerms[j]
      /\ Chars("text") \in DOMAIN oneLanguageTerms[j]
      /\ Has(oneLanguageTerms[j][Chars("identifier")], ":")) =>
       LET identifier == oneLanguageTerms[j][Chars("identifier")]
           key == Key(AfterColon(identifier), languages[lang])
       IN /\ pc' = "rows"
          /\ BeforeColon(identifier) \in DOMAIN combinedTranslations'.map
          /\ key \in DOMAIN combinedTranslations'.map[BeforeColon(identifier)]
          /\ combinedTranslations'.map[BeforeColon(identifier)][key]
               = oneLanguageTerms[j][Chars("text")]]_vars

----------------------------------------------------------------------------
(* C8 *)

\* The quoting as the claim words it, decided on the text itself
MinimalQuoting(text) ==
  IF Has(text, ",") \/ Has(text, "\"")
  THEN <<"\"">> \o DoubleQuotes(text) \o <<"\"">>
  ELSE text

\* C8: every value written to the merged file follows a comma and is wrapped
\* in double quotes, its own quotes doubled, exactly when it holds a comma or
\* a double quote; otherwise it is written bare and unchanged.
C8_MinimalQuoting ==
  pc = "done" =>
    LET lines == DataLines IN
    /\ Len(lines) = Len(combinedTranslations.order)
    /\ \A r \in DOMAIN lines :
         LET localName == combinedTranslations.order[r]
             translations == combinedTranslations.map[localName]
         IN lines[r] =
              localName
              \o Flatten([n \in DOMAIN OutputCells |->
                   LET key == Key(Chars(OutputCells[n].col), OutputCells[n].lang) IN
                   IF key \in DOMAIN translations
                   THEN <<",">> \o MinimalQuoting(translations[key])
                   ELSE <<>>])

\* A finished run that wrote a label with a quote and no comma, and a German
\* label beside it
C8_Witness ==
  /\ pc = "done"
  /\ <<"t">> \in DOMAIN combinedTranslations.map
  /\ LET translations == combinedTranslations.map[<<"t">>] IN
     /\ Key(Chars("label"), "en") \in DOMAIN translations
     /\ Key(Chars("label"), "de") \in DOMAIN translations
     /\ Has(translations[Key(Chars("label"), "en")], "\"")
     /\ ~Has(translations[Key(Chars("label"), "en")], ",")

----------------------------------------------------------------------------
(* C9 *)

RequiredSourceColumns == {"term_localName", "label", "term_deprecated"}

RequiredFileColumns == {Chars("identifier"), Chars("text")}

\* C9 as stated: a run over a source table with rows and language files with
\* rows ends well only if every source row has term_localName, label and
\* term_deprecated and every row of every language file has identifier and
\* text.
C9_MissingColumnAlwaysHalts ==
  pc = "done" =>
    /\ \A r \in DOMAIN originalTerms : RequiredSourceColumns \subseteq DOMAIN originalTerms[r]
    /\ \A n \in DOMAIN ExistingLanguages :
         \A m \in DOMAIN FileRows(ExistingLanguages[n]) :
           RequiredFileColumns \subseteq DOMAIN FileRows(ExistingLanguages[n])[m]

\* The row has something to export
HasFieldToExport(originalRow) ==
  \E n \in DOMAIN translate_these_columns :
    LET col == translate_these_columns[n] IN
    /\ NonEmptyField(originalRow, col)
    /\ (col = "examples" => Len(examples_without_examples(originalRow[col])) >= 2)

\* C9 as amended: a run ends well only if every source row has
\* term_deprecated, every live source row with something to export has
\* term_localName and label, and every row of every language file has
\* identifier and text.
C9_MissingColumnHaltsWhenRead ==
  pc = "done" =>
    /\ \A r \in DOMAIN originalTerms :
         LET row == originalTerms[r] IN
         /\ "term_deprecated" \in DOMAIN row
         /\ (row["term_deprecated"] # TrueText /\ HasFieldToExport(row)) =>
              {"term_localName", "label"} \subseteq DOMAIN row
    /\ \A n \in DOMAIN ExistingLanguages :
         \A m \in DOMAIN FileRows(ExistingLanguages[n]) :
           RequiredFileColumns \subseteq DOMAIN FileRows(ExistingLanguages[n])[m]

\* A run halted by the read of a label column the source table lacks
C9_Witness ==
  /\ pc = "error"
  /\ error = "KeyError"
  /\ i <= Len(originalTerms)
  /\ "term_deprecated" \in DOMAIN originalTerms[i]
  /\ "label" \notin DOMAIN originalTerms[i]

----------------------------------------------------------------------------
(* C10 *)

\* The accumulation of lines 106-113 over the rows of one file, and over the
\* files of a list of languages that all exist
RECURSIVE MergedRows(_, _, _, _)
MergedRows(combined, rows, language, n) ==
  IF n > Len(rows) THEN combined
  ELSE MergedRows(Accumulate(combined,
                             BeforeColon(rows[n][Chars("identifier")]),
                             Key(AfterColon(rows[n][Chars("identifier")]), language),
                             rows[n][Chars("text")]),
                  rows, language, n + 1)

RECURSIVE MergedLanguages(_, _, _)
MergedLanguages(combined, configured, n) ==
  IF n > Len(configured) THEN combined
  ELSE MergedLanguages(MergedRows(combined, FileRows(configured[n]), configured[n], 1),
                       configured, n + 1)

\* C10: a language without a file raises no error and adds nothing; the
\* files of the other languages are read, and the merged file is the one a
\* run configured with the existing languages alone would accumulate.
C10_MissingFileSkipped ==
  /\ error # "FileNotFoundError"
  /\ pc = "done" =>
       LET expected == MergedLanguages([order |-> <<>>, map |-> EmptyDict],
                                       ExistingLanguages, 1)
       IN /\ combinedTranslations = expected
          /\ translationsFile =
               HeaderLine
               \o Flatten([r \in DOMAIN expected.order |->
                            RowLine(expected.order[r], expected.map[expected.order[r]])])

\* A finished run without a German file whose French file added a value
C10_Witness ==
  /\ pc = "done"
  /\ ~fs["de"].exists
  /\ fs["fr"].exists
  /\ \E name \in DOMAIN combinedTranslations.map :
       \E col \in {"label", "dcterms_description"} :
         Key(Chars(col), "fr") \in DOMAIN combinedTranslations.map[name]
====
